---------------------------- MODULE Spec2Model ----------------------------
(***************************************************************************)
(* The author byline injector of backend-engineering-notes.                *)
(*                                                                         *)
(* Two copies of the script exist: docs/js/author-avatar.js (image source  *)
(* is a fixed relative path) and the copy quoted in README.md (image       *)
(* source is window.location.origin plus a fixed absolute path).  Both     *)
(* register one DOMContentLoaded listener whose body looks up the first    *)
(* "article h1, article h2" element and inserts a freshly built <div>      *)
(* right after it.                                                         *)
(*                                                                         *)
(* The document is a tree of element nodes.  Strings whose characters      *)
(* matter (URLs) are sequences of one-character strings.                   *)
(***************************************************************************)
EXTENDS Naturals, Sequences, FiniteSets

VARIABLES
    dom,        \* the document: node id -> element record
    loc,        \* window.location of the page
    variant,    \* which copy of the script the page ships
    missing,    \* the DOM API this browser lacks, or "none"
    registered, \* the script has run document.addEventListener
    fired,      \* how many times DOMContentLoaded has been dispatched
    calls,      \* how many times the listener has been invoked
    inserted,   \* how many invocations reached the end of the if-block
    threw,      \* how many invocations ended with an uncaught exception
    run,        \* the listener invocation in progress, statement by statement
    others,     \* how many times another script of the page has changed the document
    unloaded    \* the page has been torn down

vars == <<dom, loc, variant, missing, registered, fired, calls, inserted, threw,
          run, others, unloaded>>

(***************************************************************************)
(* Bounds of the model.                                                    *)
(***************************************************************************)
MaxNodes == 3   \* elements of the parsed page below <body>
MaxFires == 2   \* dispatches of DOMContentLoaded in one page load
MaxOthers == 1  \* document changes by other scripts in one page load

(***************************************************************************)
(* Strings of the two scripts.                                             *)
(***************************************************************************)
AvatarStyle == "display:flex;align-items:center;gap:10px;margin:6px 0 20px 0;"
ImgStyle == "border-radius:50%;"
SpanStyle == "font-size:14px;opacity:0.8;"
ImgWidth == 32
ImgHeight == 32

\* "images/labeeb.jpg"
RelativeImagePath == <<"i", "m", "a", "g", "e", "s", "/", "l", "a", "b", "e", "e", "b", ".", "j", "p", "g">>

\* "backend-engineering-notes/images/labeeb.jpg": the literal without its leading slash
AbsoluteImagePathNoSlash == <<"b", "a", "c", "k", "e", "n", "d", "-", "e", "n", "g", "i", "n", "e", "e", "r", "i", "n", "g", "-", "n", "o", "t", "e", "s", "/", "i", "m", "a", "g", "e", "s", "/", "l", "a", "b", "e", "e", "b", ".", "j", "p", "g">>

\* '/backend-engineering-notes/images/labeeb.jpg'
AbsoluteImagePath == <<"/", "b", "a", "c", "k", "e", "n", "d", "-", "e", "n", "g", "i", "n", "e", "e", "r", "i", "n", "g", "-", "n", "o", "t", "e", "s", "/", "i", "m", "a", "g", "e", "s", "/", "l", "a", "b", "e", "e", "b", ".", "j", "p", "g">>

\* the site's base path, as in https://labeebahmad201.github.io/backend-engineering-notes/
SiteBasePath == <<"/", "b", "a", "c", "k", "e", "n", "d", "-", "e", "n", "g", "i", "n", "e", "e", "r", "i", "n", "g", "-", "n", "o", "t", "e", "s", "/">>

Variants == {"relative", "origin"}

(***************************************************************************)
(* Elements.                                                               *)
(***************************************************************************)
Body == 0
\* querySelector's null: one past the last id a page load can hand out
NoNode == MaxNodes + 3 * MaxFires + MaxOthers + 1

PageTags == {"article", "h1", "h2", "p"}

Element(t, k) ==
    [tag |-> t, kids |-> k, style |-> "", src |-> <<>>,
     width |-> 0, height |-> 0, text |-> ""]

InSeq(x, s) == \E i \in 1..Len(s) : s[i] = x

IndexOf(x, s) == CHOOSE i \in 1..Len(s) : s[i] = x

SetMin(S) == CHOOSE m \in S : \A x \in S : m <= x

RECURSIVE SortedSeq(_)
SortedSeq(S) ==
    IF S = {} THEN <<>>
    ELSE LET m == SetMin(S) IN <<m>> \o SortedSeq(S \ {m})

(***************************************************************************)
(* window.location and its origin.  The origin of a tuple origin           *)
(* serialises as scheme "://" host [":" port]; an opaque origin (a file:   *)
(* page) as "null".                                                        *)
(***************************************************************************)
Locations ==
    { [scheme |-> <<"h", "t", "t", "p", "s">>, host |-> <<"a", ".", "i", "o">>,
       port |-> <<>>, path |-> <<"n">>],
      [scheme |-> <<"h", "t", "t", "p", "s">>, host |-> <<"a", ".", "i", "o">>,
       port |-> <<>>, path |-> <<"n", "d", "j">>],
      [scheme |-> <<"h", "t", "t", "p">>, host |-> <<"h">>,
       port |-> <<"8">>, path |-> <<"n">>],
      [scheme |-> <<"f", "i", "l", "e">>, host |-> <<>>,
       port |-> <<>>, path |-> <<"n", "d", "j">>] }

Origin(l) ==
    IF l.scheme = <<"f", "i", "l", "e">> THEN <<"n", "u", "l", "l">>
    ELSE l.scheme \o <<":", "/", "/">> \o l.host
         \o (IF l.port = <<>> THEN <<>> ELSE <<":">> \o l.port)

(***************************************************************************)
(* document.querySelector("article h1, article h2")                        *)
(***************************************************************************)
RECURSIVE Preorder(_, _), PreorderAll(_, _)
Preorder(d, n) == <<n>> \o PreorderAll(d, d[n].kids)

PreorderAll(d, s) ==
    IF s = <<>> THEN <<>>
    ELSE Preorder(d, Head(s)) \o PreorderAll(d, Tail(s))

ParentOf(d, n) ==
    IF \E p \in DOMAIN d : InSeq(n, d[p].kids)
    THEN CHOOSE p \in DOMAIN d : InSeq(n, d[p].kids)
    ELSE NoNode

RECURSIVE HasAncestor(_, _, _)
HasAncestor(d, n, t) ==
    LET p == ParentOf(d, n)
    IN  IF p = NoNode THEN FALSE
        ELSE d[p].tag = t \/ HasAncestor(d, p, t)

\* matches h1 and h2 anywhere, not only inside an article
MatchesAnywhere(d, n) == d[n].tag = "h1" \/ d[n].tag = "h2"

\* "h1, article h2": the h1 anywhere
MatchesH1Anywhere(d, n) ==
    \/ d[n].tag = "h1"
    \/ d[n].tag = "h2" /\ HasAncestor(d, n, "article")

Matches(d, n) ==
    \/ d[n].tag = "h1" /\ HasAncestor(d, n, "article")
    \/ d[n].tag = "h2" /\ HasAncestor(d, n, "article")

\* the first matching h1, and an h2 only when no h1 matches
QuerySelectorPreferH1(d) ==
    LET order == Preorder(d, Body)
        h1s == {i \in 1..Len(order) : Matches(d, order[i]) /\ d[order[i]].tag = "h1"}
        hits == {i \in 1..Len(order) : Matches(d, order[i])}
    IN  IF h1s # {} THEN order[SetMin(h1s)]
        ELSE IF hits = {} THEN NoNode ELSE order[SetMin(hits)]

\* the last match in document order instead of the first
QuerySelectorLast(d) ==
    LET order == Preorder(d, Body)
        hits == {i \in 1..Len(order) : Matches(d, order[i])}
    IN  IF hits = {} THEN NoNode
        ELSE order[CHOOSE i \in hits : \A j \in hits : j <= i]

QuerySelector(d) ==
    LET order == Preorder(d, Body)
        hits == {i \in 1..Len(order) : Matches(d, order[i])}
    IN  IF hits = {} THEN NoNode ELSE order[SetMin(hits)]

(***************************************************************************)
(* The listener body.                                                      *)
(***************************************************************************)
\* the relative path rewritten against the page's depth
ImageUrlByDepth(v, l) ==
    IF v = "origin" THEN Origin(l) \o AbsoluteImagePath
    ELSE IF Len(l.path) > 1 THEN <<".", ".", "/">> \o RelativeImagePath
    ELSE RelativeImagePath

\* the origin-qualified path prefixed with the page's own directory
ImageUrlUnderPage(v, l) ==
    IF v = "origin"
    THEN IF Len(l.path) > 1 THEN Origin(l) \o <<"/", "d">> \o AbsoluteImagePath
         ELSE Origin(l) \o AbsoluteImagePath
    ELSE RelativeImagePath

ImageUrl(v, l) ==
    IF v = "origin" THEN Origin(l) \o AbsoluteImagePath
    ELSE RelativeImagePath

LabelText(v) == IF v = "origin" THEN "By Labeeb" ELSE "By labeeb"

\* the template with the label before the image
InnerHTMLLabelFirst(v, l) ==
    << [Element("span", <<>>) EXCEPT !.style = SpanStyle, !.text = LabelText(v)],
       [Element("img", <<>>) EXCEPT !.src = ImageUrl(v, l), !.width = ImgWidth,
                                    !.height = ImgHeight, !.style = ImgStyle] >>

\* the elements the innerHTML template parses to
InnerHTML(v, l) ==
    << [Element("img", <<>>) EXCEPT !.src = ImageUrl(v, l), !.width = ImgWidth,
                                    !.height = ImgHeight, !.style = ImgStyle],
       [Element("span", <<>>) EXCEPT !.style = SpanStyle, !.text = LabelText(v)] >>

NextId(d) == Cardinality(DOMAIN d)

\* createElement("div"), the style and innerHTML assignments: the new subtree
AvatarDiv(d, v, l) ==
    LET id == NextId(d)
        parts == InnerHTML(v, l)
    IN  [n \in id..(id + Len(parts)) |->
            IF n = id
            THEN [Element("div", [i \in 1..Len(parts) |-> id + i])
                     EXCEPT !.style = AvatarStyle]
            ELSE parts[n - id]]

\* overwrites what followed x instead of shifting it
InsertAfterReplacing(s, x, y) ==
    LET i == IndexOf(x, s)
    IN  SubSeq(s, 1, i) \o <<y>> \o SubSeq(s, i + 2, Len(s))

\* "beforebegin" instead of "afterend"
InsertBefore(s, x, y) ==
    LET i == IndexOf(x, s)
    IN  SubSeq(s, 1, i - 1) \o <<y>> \o SubSeq(s, i, Len(s))

\* after the element that follows x, when there is one
InsertAfterNext(s, x, y) ==
    LET i == IndexOf(x, s)
        j == IF i < Len(s) THEN i + 1 ELSE i
    IN  SubSeq(s, 1, j) \o <<y>> \o SubSeq(s, j + 1, Len(s))

\* "beforeend" of the parent instead of "afterend" of x
InsertAtEnd(s, x, y) == s \o <<y>>

\* replaceWith: y takes the place of x
InsertInPlaceOf(s, x, y) ==
    LET i == IndexOf(x, s)
    IN  SubSeq(s, 1, i - 1) \o <<y>> \o SubSeq(s, i + 1, Len(s))

InsertAfter(s, x, y) ==
    LET i == IndexOf(x, s)
    IN  SubSeq(s, 1, i) \o <<y>> \o SubSeq(s, i + 1, Len(s))

\* the innermost article around n
RECURSIVE ClosestArticle(_, _)
ClosestArticle(d, n) ==
    LET p == ParentOf(d, n)
    IN  IF p = NoNode THEN NoNode
        ELSE IF d[p].tag = "article" THEN p
        ELSE ClosestArticle(d, p)

\* firstHeading.closest("article").append(avatarDiv)
InsertAdjacentInArticle(d, target, sub, id) ==
    LET a == ClosestArticle(d, target)
        all == [n \in (DOMAIN d) \cup (DOMAIN sub) |->
                   IF n \in DOMAIN sub THEN sub[n] ELSE d[n]]
    IN  [all EXCEPT ![a].kids = Append(d[a].kids, id)]

\* firstHeading.insertAdjacentElement("afterend", avatarDiv)
InsertAdjacentAfterEnd(d, target, sub, id) ==
    LET p == ParentOf(d, target)
        all == [n \in (DOMAIN d) \cup (DOMAIN sub) |->
                   IF n \in DOMAIN sub THEN sub[n] ELSE d[n]]
    IN  [all EXCEPT ![p].kids = InsertAfter(d[p].kids, target, id)]

Apis == {"createElement", "style", "innerHTML", "insertAdjacentElement"}

Handler(d, v, l, miss) ==
    LET firstHeading == QuerySelector(d)
    IN  IF firstHeading = NoNode
        THEN [dom |-> d, found |-> FALSE, threw |-> FALSE]
        ELSE IF miss \in Apis
        THEN [dom |-> d, found |-> TRUE, threw |-> TRUE]
        ELSE [dom |-> InsertAdjacentAfterEnd(d, firstHeading, AvatarDiv(d, v, l), NextId(d)),
              found |-> TRUE, threw |-> FALSE]

(***************************************************************************)
(* Pages.  The parser numbers the elements in document order, so an        *)
(* element's parent is the element before it or one of that element's      *)
(* ancestors.                                                              *)
(***************************************************************************)
RECURSIVE SelfAndAncestors(_, _)
SelfAndAncestors(par, n) ==
    IF n = Body THEN {Body} ELSE {n} \cup SelfAndAncestors(par, par[n])

Shapes ==
    { par \in [1..MaxNodes -> 0..(MaxNodes - 1)] :
        /\ par[1] = Body
        /\ \A i \in 2..MaxNodes : par[i] \in SelfAndAncestors(par, i - 1) }

Page(par, tg) ==
    [n \in 0..MaxNodes |->
        Element(IF n = Body THEN "body" ELSE tg[n],
                SortedSeq({i \in 1..MaxNodes : par[i] = n}))]

Pages == { Page(par, tg) : par \in Shapes, tg \in [1..MaxNodes -> PageTags] }

(***************************************************************************)
(* The page load.                                                          *)
(***************************************************************************)
\* no listener invocation is in progress
Idle == [pc |-> "idle", heading |-> NoNode, next |-> NoNode]

\* the event loop is between tasks and the page is alive
Quiet == run.pc = "idle" /\ ~unloaded

InitCommon ==
    /\ dom \in Pages
    /\ loc \in Locations
    /\ variant \in Variants
    /\ registered = FALSE
    /\ fired = 0
    /\ calls = 0
    /\ inserted = 0
    /\ threw = 0
    /\ run = Idle
    /\ others = 0
    /\ unloaded = FALSE

\* a browser that implements every DOM API the script calls
Init == InitCommon /\ missing = "none"

\* any browser that can parse the script
InitAnyBrowser == InitCommon /\ missing \in Apis \cup {"none"}

\* the script's top level: document.addEventListener("DOMContentLoaded", ...)
RegisterListener ==
    /\ Quiet
    /\ ~registered
    /\ registered' = TRUE
    /\ UNCHANGED <<dom, loc, variant, missing, fired, calls, inserted, threw,
                   run, others, unloaded>>

\* the event is dispatched: the listener, if registered, runs to its end
Dispatch ==
    /\ fired' = fired + 1
    /\ IF registered
       THEN LET r == Handler(dom, variant, loc, missing)
            IN  /\ dom' = r.dom
                /\ calls' = calls + 1
                /\ inserted' = inserted + (IF r.found /\ ~r.threw THEN 1 ELSE 0)
                /\ threw' = threw + (IF r.threw THEN 1 ELSE 0)
       ELSE UNCHANGED <<dom, calls, inserted, threw>>
    /\ UNCHANGED <<loc, variant, missing, registered, run, others, unloaded>>

\* the browser finishes parsing
DOMContentLoaded == fired = 0 /\ Dispatch

\* a later dispatch of the same event by the hosting page
Redispatch == fired >= 1 /\ fired < MaxFires /\ Dispatch

Next == RegisterListener \/ DOMContentLoaded \/ Redispatch

Spec == Init /\ [][Next]_vars

SpecAnyBrowser == InitAnyBrowser /\ [][Next]_vars

(***************************************************************************)
(* The same page load statement by statement, with the other scripts of    *)
(* the page and the page's teardown.  The browser runs one task at a time: *)
(* another script, a dispatch or the teardown starts only when no listener *)
(* invocation is in progress, or when the invocation has suspended.        *)
(***************************************************************************)
\* the positions at which the listener yields to the event loop: it is not
\* an async function and contains no await
SuspensionPointsAfterLookup == {"located"}

SuspensionPoints == {}

\* the next element sibling of n, or NoNode
NextElementSibling(d, n) ==
    LET p == ParentOf(d, n)
    IN  IF p = NoNode THEN NoNode
        ELSE LET i == IndexOf(n, d[p].kids)
             IN  IF i < Len(d[p].kids) THEN d[p].kids[i + 1] ELSE NoNode

\* the event is dispatched: the listener, if registered, is invoked
BeginDispatch ==
    /\ Quiet
    /\ fired' = fired + 1
    /\ run' = IF registered THEN [Idle EXCEPT !.pc = "called"] ELSE run
    /\ UNCHANGED <<dom, loc, variant, missing, registered, calls, inserted, threw,
                   others, unloaded>>

FireStep == fired = 0 /\ BeginDispatch

RefireStep == fired >= 1 /\ fired < MaxFires /\ BeginDispatch

\* const firstHeading = document.querySelector(...); if (firstHeading) {
Locate ==
    /\ run.pc = "called"
    /\ LET h == QuerySelector(dom)
       IN  IF h = NoNode
           THEN /\ run' = Idle
                /\ calls' = calls + 1
           ELSE /\ run' = [pc |-> "located", heading |-> h,
                           next |-> NextElementSibling(dom, h)]
                /\ UNCHANGED calls
    /\ UNCHANGED <<dom, loc, variant, missing, registered, fired, inserted, threw,
                   others, unloaded>>

\* createElement, the style and the innerHTML assignments
Build ==
    /\ run.pc = "located"
    /\ IF missing \in {"createElement", "style", "innerHTML"}
       THEN /\ run' = Idle
            /\ calls' = calls + 1
            /\ threw' = threw + 1
       ELSE /\ run' = [run EXCEPT !.pc = "built"]
            /\ UNCHANGED <<calls, threw>>
    /\ UNCHANGED <<dom, loc, variant, missing, registered, fired, inserted,
                   others, unloaded>>

\* firstHeading.insertAdjacentElement("afterend", avatarDiv); a heading that
\* has no parent any more takes no sibling
InsertStep ==
    /\ run.pc = "built"
    /\ run' = Idle
    /\ calls' = calls + 1
    /\ IF missing = "insertAdjacentElement"
       THEN /\ threw' = threw + 1
            /\ UNCHANGED <<dom, inserted>>
       ELSE IF ParentOf(dom, run.heading) = NoNode
       THEN UNCHANGED <<dom, inserted, threw>>
       ELSE /\ dom' = InsertAdjacentAfterEnd(dom, run.heading,
                                             AvatarDiv(dom, variant, loc), NextId(dom))
            /\ inserted' = inserted + 1
            /\ UNCHANGED threw
    /\ UNCHANGED <<loc, variant, missing, registered, fired, others, unloaded>>

\* another script may run now
OthersMayRun ==
    /\ ~unloaded
    /\ run.pc = "idle" \/ run.pc \in SuspensionPoints
    /\ others < MaxOthers

\* another script appends a heading to an article
OtherScriptAppends ==
    /\ OthersMayRun
    /\ \E p \in DOMAIN dom :
          /\ dom[p].tag = "article"
          /\ ParentOf(dom, p) # NoNode
          /\ LET id == NextId(dom)
                 all == [n \in (DOMAIN dom) \cup {id} |->
                            IF n = id THEN Element("h1", <<>>) ELSE dom[n]]
             IN  dom' = [all EXCEPT ![p].kids = Append(dom[p].kids, id)]
    /\ others' = others + 1
    /\ UNCHANGED <<loc, variant, missing, registered, fired, calls, inserted, threw,
                   run, unloaded>>

\* another script removes an element (with what it contains)
OtherScriptRemoves ==
    /\ OthersMayRun
    /\ \E n \in DOMAIN dom :
          /\ ParentOf(dom, n) # NoNode
          /\ LET p == ParentOf(dom, n)
             IN  dom' = [dom EXCEPT ![p].kids = SelectSeq(dom[p].kids, LAMBDA x : x # n)]
    /\ others' = others + 1
    /\ UNCHANGED <<loc, variant, missing, registered, fired, calls, inserted, threw,
                   run, unloaded>>

\* navigation away: the page and all its state are discarded
Unload ==
    /\ Quiet
    /\ unloaded' = TRUE
    /\ UNCHANGED <<dom, loc, variant, missing, registered, fired, calls, inserted,
                   threw, run, others>>

NextSteps ==
    \/ RegisterListener
    \/ FireStep
    \/ RefireStep
    \/ Locate
    \/ Build
    \/ InsertStep
    \/ OtherScriptAppends
    \/ OtherScriptRemoves

\* the statements and their order are the same in both copies and on every
\* URL: the shipped file on one page URL
InitSteps ==
    /\ Init
    /\ variant = "relative"
    /\ loc.path = <<"n">>
    /\ loc.port = <<>>

SpecSteps == InitSteps /\ [][NextSteps]_vars

NextLive == NextSteps \/ Unload

\* the browser does fire DOMContentLoaded, and a listener that has been
\* invoked runs its statements one after the other
SpecLive ==
    /\ InitSteps
    /\ [][NextLive]_vars
    /\ WF_vars(FireStep)
    /\ WF_vars(Locate)
    /\ WF_vars(Build)
    /\ WF_vars(InsertStep)

(***************************************************************************)
(* Vocabulary of the properties.                                           *)
(***************************************************************************)
RECURSIVE Ancestors(_, _)
Ancestors(d, n) ==
    LET ps == {p \in DOMAIN d : InSeq(n, d[p].kids)}
    IN  ps \cup UNION {Ancestors(d, p) : p \in ps}

RECURSIVE Descendants(_, _)
Descendants(d, n) ==
    LET ks == {d[n].kids[i] : i \in 1..Len(d[n].kids)}
    IN  ks \cup UNION {Descendants(d, k) : k \in ks}

\* the elements of the document
Attached(d) == {Body} \cup Descendants(d, Body)

\* the h1 and h2 elements inside an article
Qualifying(d) ==
    {n \in Attached(d) :
        /\ d[n].tag \in {"h1", "h2"}
        /\ \E a \in Ancestors(d, n) : d[a].tag = "article"}

\* the byline containers in the document
Bylines(d) == {n \in Attached(d) : d[n].tag = "div" /\ d[n].style = AvatarStyle}

Parents(d, n) == {p \in DOMAIN d : InSeq(n, d[p].kids)}

Siblings(d, n) == d[CHOOSE p \in Parents(d, n) : TRUE].kids

NextSibling(d, n) ==
    LET s == Siblings(d, n)
        i == IndexOf(n, s)
    IN  IF i < Len(s) THEN s[i + 1] ELSE NoNode

PreviousSibling(d, n) ==
    LET s == Siblings(d, n)
        i == IndexOf(n, s)
    IN  IF i > 1 THEN s[i - 1] ELSE NoNode

\* s without the elements outside S
RECURSIVE Keep(_, _)
Keep(s, S) ==
    IF s = <<>> THEN <<>>
    ELSE (IF Head(s) \in S THEN <<Head(s)>> ELSE <<>>) \o Keep(Tail(s), S)

\* the elements of the page as parsed
PageNodes == 0..MaxNodes

----------------------------------------------------------------------------
\* C1: on a page with exactly one h1-or-h2 inside an article, once the event
\* has fired and the listener has run for it, the document holds exactly one
\* byline and it is the heading's immediate next sibling.
C1_OneBylineAfterTheHeading ==
    (calls = 1 /\ Cardinality(Qualifying(dom)) = 1)
        => /\ Cardinality(Bylines(dom)) = 1
           /\ \A h \in Qualifying(dom) : NextSibling(dom, h) \in Bylines(dom)

\* the listener has run once on a page with one heading inside an article,
\* and that heading is followed by the byline and then by page content
C1_Witness ==
    /\ calls = 1
    /\ Cardinality(Qualifying(dom)) = 1
    /\ \E h \in Qualifying(dom) :
          /\ NextSibling(dom, h) \in Bylines(dom)
          /\ NextSibling(dom, NextSibling(dom, h)) \in PageNodes \ {Body}

\* C3: at most one byline is ever in the document, however often the
\* listener is invoked in one page load.
C3_AtMostOneByline == Cardinality(Bylines(dom)) <= 1

----------------------------------------------------------------------------
\* C2: on a page with no h1 or h2 inside an article, a step of the page load
\* (a listener run included) leaves the document as it was, creates no
\* byline and raises no error.
C2_NoHeadingNoChange ==
    [][Qualifying(dom) = {} =>
          /\ dom' = dom
          /\ Bylines(dom') = {}
          /\ threw' = threw]_vars

\* the listener has run on a page whose only headings lie outside every
\* article, in a browser lacking an API the if-block would call
C2_Witness ==
    /\ calls >= 1
    /\ Qualifying(dom) = {}
    /\ \E n \in DOMAIN dom : dom[n].tag \in {"h1", "h2"}
    /\ missing \in Apis
    /\ DOMAIN dom = PageNodes
    /\ threw = 0

----------------------------------------------------------------------------
\* C4: a step only adds: every element that existed before is still there
\* with the same attributes and the same parent, the elements that existed
\* before keep their order under every parent, and what is new is at most
\* one byline subtree.
Additive(d, e) ==
    LET new == (DOMAIN e) \ (DOMAIN d)
    IN  /\ DOMAIN d \subseteq DOMAIN e
        /\ \A n \in DOMAIN d :
              /\ [e[n] EXCEPT !.kids = Keep(e[n].kids, DOMAIN d)] = d[n]
              /\ Parents(e, n) = Parents(d, n)
        /\ \/ new = {}
           \/ \E b \in new :
                 /\ b \in Bylines(e)
                 /\ new = {b} \cup Descendants(e, b)
                 /\ \A n \in new \ {b} : Parents(e, n) \subseteq new
                 /\ Cardinality(Parents(e, b)) = 1

C4_PurelyAdditive == [][Additive(dom, dom')]_vars

\* a byline went in between a heading and the content that followed it
C4_Witness ==
    \E b \in Bylines(dom) :
        /\ PreviousSibling(dom, b) \in Qualifying(dom)
        /\ NextSibling(dom, b) \in PageNodes \ {Body}

----------------------------------------------------------------------------
\* C5: when a byline is inserted, its previous sibling is a heading inside
\* an article and its next sibling is what was that heading's next sibling
\* before (nothing, when the heading was the last child).
PlacedAfterHeading(d, e) ==
    \A b \in Bylines(e) \ Bylines(d) :
        \E h \in Qualifying(d) :
            /\ PreviousSibling(e, b) = h
            /\ NextSibling(e, b) = NextSibling(d, h)

C5_BetweenHeadingAndFollowingContent == [][PlacedAfterHeading(dom, dom')]_vars

\* a byline was inserted after a heading that was its parent's last child
C5_Witness ==
    \E b \in Bylines(dom) :
        /\ PreviousSibling(dom, b) \in Qualifying(dom)
        /\ NextSibling(dom, b) = NoNode

----------------------------------------------------------------------------
\* the heading a byline was inserted after: later bylines go in between
\* the heading and the earlier ones
RECURSIVE Anchor(_, _)
Anchor(d, b) ==
    LET p == PreviousSibling(d, b)
    IN  IF p \in Bylines(d) THEN Anchor(d, p) ELSE p

\* x comes before y in document order
Before(d, x, y) ==
    LET order == Preorder(d, Body)
    IN  IndexOf(x, order) < IndexOf(y, order)

\* C6 as stated: whenever an h1 exists inside an article, the heading
\* that gets the byline is an h1 (an h2 only when no such h1 exists).
C6_PrefersLevel1 ==
    \A b \in Bylines(dom) :
        (\E h \in Qualifying(dom) : dom[h].tag = "h1")
            => dom[Anchor(dom, b)].tag = "h1"

\* C6 as amended: document order decides, not the level.  The heading that
\* gets the byline is an h1 or h2 inside an article; when it is an h2, no
\* h1 inside an article precedes it, and when it is an h1, no h2 inside an
\* article precedes it.
C6_LevelFollowsDocumentOrder ==
    \A b \in Bylines(dom) :
        LET a == Anchor(dom, b)
        IN  /\ a \in Qualifying(dom)
            /\ \A h \in Qualifying(dom) \ {a} :
                  dom[h].tag # dom[a].tag => Before(dom, a, h)

\* the byline follows an h2 although an h1 inside an article comes later
C6_Witness ==
    \E b \in Bylines(dom) :
        /\ dom[Anchor(dom, b)].tag = "h2"
        /\ \E h \in Qualifying(dom) :
              dom[h].tag = "h1" /\ Before(dom, Anchor(dom, b), h)

----------------------------------------------------------------------------
\* the img elements of the document
Images(d) == {n \in Attached(d) : d[n].tag = "img"}

\* exactly one "/" at position i of u
OneSlashAt(u, i) ==
    /\ u[i] = "/"
    /\ i > 1 => u[i - 1] # "/"
    /\ i < Len(u) => u[i + 1] # "/"

C8_RelativePathUnchanged ==
    variant = "relative" =>
        \A n \in Images(dom) : dom[n].src = RelativeImagePath

\* the relative copy has inserted a byline on a page three directories deep
C8_Witness ==
    /\ variant = "relative"
    /\ Images(dom) # {}
    /\ Len(loc.path) = 3

----------------------------------------------------------------------------
\* C9: no failure of a construction or insertion step escapes the listener.
C9_NoErrorEscapes == threw = 0

----------------------------------------------------------------------------
\* the injector's state as the design describes it
InjectorState == IF calls = 0 THEN "pending" ELSE "done"

\* C10: pending -> done happens once; once done, the injector stays done
\* and the operation sequence is never performed again.
C10_DoneIsFinal ==
    [][InjectorState = "done" => (InjectorState' = "done" /\ calls' = calls)]_vars

----------------------------------------------------------------------------
\* C11: in a page load where the script has registered its listener and the
\* document has become ready, the listener has run exactly once, whichever
\* of the two came first.
C11_RunsExactlyOnce == (registered /\ fired >= 1) => calls = 1

----------------------------------------------------------------------------
OtherVariant(v) == IF v = "origin" THEN "relative" ELSE "origin"

\* the same elements with the same attributes, image sources aside
SameExceptSrc(d, e) ==
    /\ DOMAIN d = DOMAIN e
    /\ \A n \in DOMAIN d : [d[n] EXCEPT !.src = <<>>] = [e[n] EXCEPT !.src = <<>>]

\* C12: whenever the shipped copy changes the document, the other copy run
\* on the same document would have produced the same document, image
\* source aside (same heading, same position, same styles, same label).
C12_VariantsAgree ==
    [][dom' # dom =>
          SameExceptSrc(dom', Handler(dom, OtherVariant(variant), loc, missing).dom)]_vars

----------------------------------------------------------------------------
\* C13: the heading that gets the byline is the first element in document
\* order among all h1 and h2 inside an article, whatever its level.
C13_FirstInDocumentOrder ==
    \A b \in Bylines(dom) :
        /\ Anchor(dom, b) \in Qualifying(dom)
        /\ \A h \in Qualifying(dom) \ {Anchor(dom, b)} : Before(dom, Anchor(dom, b), h)

\* the byline follows the first of two headings of the same level
C13_Witness ==
    \E b \in Bylines(dom) :
        \E h \in Qualifying(dom) :
            /\ h # Anchor(dom, b)
            /\ dom[h].tag = dom[Anchor(dom, b)].tag

----------------------------------------------------------------------------
\* the qualifying heading that precedes all the others
FirstQualifying(d) ==
    CHOOSE a \in Qualifying(d) : \A h \in Qualifying(d) \ {a} : Before(d, a, h)

\* C14 as stated: a run that inserts a byline inserts one, after the first
\* qualifying heading, and the next and previous siblings of every other
\* qualifying heading are what they were.
OnlyFirstUntouchedOthers(d, e) ==
    LET new == Bylines(e) \ Bylines(d)
    IN  new # {} =>
           /\ Cardinality(new) = 1
           /\ \A b \in new : PreviousSibling(e, b) = FirstQualifying(d)
           /\ \A h \in Qualifying(d) \ {FirstQualifying(d)} :
                 /\ NextSibling(e, h) = NextSibling(d, h)
                 /\ PreviousSibling(e, h) = PreviousSibling(d, h)

C14_OtherHeadingsSiblingsUnchanged == [][OnlyFirstUntouchedOthers(dom, dom')]_vars

\* C14 as amended: a run that inserts a byline inserts one, after the first
\* qualifying heading; every other qualifying heading keeps its next
\* sibling, and keeps its previous sibling unless it immediately followed
\* the first heading, in which case the new byline now precedes it.
OnlyFirstGetsByline(d, e) ==
    LET new == Bylines(e) \ Bylines(d)
    IN  new # {} =>
           /\ Cardinality(new) = 1
           /\ \A b \in new : PreviousSibling(e, b) = FirstQualifying(d)
           /\ \A h \in Qualifying(d) \ {FirstQualifying(d)} :
                 /\ NextSibling(e, h) = NextSibling(d, h)
                 /\ \/ PreviousSibling(e, h) = PreviousSibling(d, h)
                    \/ /\ PreviousSibling(d, h) = FirstQualifying(d)
                       /\ PreviousSibling(e, h) \in new

C14_OnlyFirstHeadingGetsByline == [][OnlyFirstGetsByline(dom, dom')]_vars

\* a byline stands between the first heading and a second qualifying
\* heading that used to follow it immediately
C14_Witness ==
    \E b \in Bylines(dom) :
        /\ PreviousSibling(dom, b) = FirstQualifying(dom)
        /\ NextSibling(dom, b) \in Qualifying(dom)

----------------------------------------------------------------------------
\* C18: in the origin-qualified copy the image source written on this page
\* is the one the copy writes on every page of the same origin, whatever
\* that page's path.
C18_SameOriginSameImageUrl ==
    variant = "origin" =>
        \A n \in Images(dom) :
            \A l \in Locations :
                Origin(l) = Origin(loc) => dom[n].src = ImageUrl(variant, l)

\* the origin-qualified copy has inserted a byline on a page three
\* directories deep whose origin also serves a page one directory deep
C18_Witness ==
    /\ variant = "origin"
    /\ Images(dom) # {}
    /\ Len(loc.path) = 3
    /\ \E l \in Locations : Origin(l) = Origin(loc) /\ Len(l.path) = 1

----------------------------------------------------------------------------
\* the h1 and h2 elements outside every article
OutsideHeadings(d) ==
    {n \in Attached(d) : d[n].tag \in {"h1", "h2"}} \ Qualifying(d)

\* C19: an h1 or h2 outside every article is never followed by a byline and
\* never the heading a byline was inserted after; a page whose only
\* headings are outside every article stays as parsed.
C19_ScopedToArticle ==
    /\ \A n \in OutsideHeadings(dom) : NextSibling(dom, n) \notin Bylines(dom)
    /\ \A b \in Bylines(dom) : Anchor(dom, b) \notin OutsideHeadings(dom)
    /\ (Qualifying(dom) = {} /\ OutsideHeadings(dom) # {})
           => (Bylines(dom) = {} /\ inserted = 0 /\ threw = 0)

\* a byline went after a heading inside an article although a heading
\* outside every article comes first in the document
C19_Witness ==
    \E b \in Bylines(dom) :
        \E n \in OutsideHeadings(dom) : Before(dom, n, Anchor(dom, b))

----------------------------------------------------------------------------
\* the element children of n, in order
Children(d, n) == [i \in 1..Len(d[n].kids) |-> d[d[n].kids[i]]]

\* the image source as the configuration resolves it
ResolvedImagePath ==
    IF variant = "origin" THEN Origin(loc) \o SiteBasePath \o RelativeImagePath
    ELSE RelativeImagePath

\* C20: every byline is one container whose element children are exactly an
\* image, 32 by 32, fully rounded, with the resolved image path as source,
\* then one label reading "By " and the author's name; neither child has
\* children of its own.
C20_BylineShape ==
    \A b \in Bylines(dom) :
        LET c == Children(dom, b)
        IN  /\ Len(c) = 2
            /\ c[1].tag = "img"
            /\ c[1].width = 32 /\ c[1].height = 32
            /\ c[1].style = "border-radius:50%;"
            /\ c[1].src = ResolvedImagePath
            /\ c[1].kids = <<>>
            /\ c[2].tag = "span"
            /\ c[2].text \in {"By labeeb", "By Labeeb"}
            /\ c[2].kids = <<>>
            /\ \A n \in Descendants(dom, b) : dom[n].tag \notin {"h1", "h2"}

\* two bylines are in the document, each of that shape
C20_Witness == Cardinality(Bylines(dom)) = 2 /\ Cardinality(Images(dom)) = 2

----------------------------------------------------------------------------
\* the listener invocations that ended having found no heading
NoOpRuns == calls - inserted - threw

\* C15: once the listener has run on a document with no qualifying heading,
\* no byline is inserted for the rest of the page load, whatever is added
\* to the document afterwards.
C15_NoInsertionAfterNoOp == [][NoOpRuns >= 1 => inserted' = inserted]_vars

----------------------------------------------------------------------------
\* n is a byline with its image and its label
CompleteByline(d, n) ==
    /\ d[n].style = AvatarStyle
    /\ Len(d[n].kids) = 2
    /\ d[d[n].kids[1]].tag = "img"
    /\ d[d[n].kids[2]].tag = "span"

\* C16: between the heading lookup and the insertion no other script
\* changes the document: while an invocation is past its lookup the heading
\* it found is still in the document with the next sibling it had; and a
\* div that enters the document enters it as a complete byline.
C16_NoInterleaving ==
    /\ [](run.pc \in {"located", "built"} =>
             /\ run.heading \in Attached(dom)
             /\ NextSibling(dom, run.heading) = run.next)
    /\ [][\A n \in Attached(dom') \ Attached(dom) :
             dom'[n].tag = "div" => CompleteByline(dom', n)]_vars

\* an invocation is about to insert, after another script changed the
\* document before the invocation began
C16_Witness ==
    /\ run.pc = "built"
    /\ others >= 1
    /\ NextSibling(dom, run.heading) # NoNode

----------------------------------------------------------------------------
\* C17: once the listener is registered, the page load reaches the end of
\* a listener run or the page's teardown.
C17_CompletesOrTornDown ==
    registered ~> (unloaded \/ (calls >= 1 /\ run.pc = "idle"))

----------------------------------------------------------------------------
\* C21: after a byline has been inserted the script writes nothing more:
\* for the rest of the page load no step changes the document (the byline
\* is not modified, moved or removed, and nothing else is added).
C21_NoWriteAfterInsertion == [][inserted >= 1 => dom' = dom]_vars

----------------------------------------------------------------------------
\* the byline created last: element ids are handed out in creation order
NewestByline(d) == CHOOSE b \in Bylines(d) : \A c \in Bylines(d) : c <= b

\* C22: in every state the number of bylines in the document is the number
\* of listener runs that found a heading and ran to their end, and the
\* byline created last is the one right after the heading.
C22_BylinesCountRuns ==
    /\ Cardinality(Bylines(dom)) = inserted
    /\ inserted >= 1 => NextSibling(dom, QuerySelector(dom)) = NewestByline(dom)

\* two runs have inserted, and the older byline follows the newer one
C22_Witness ==
    /\ inserted = 2
    /\ LET b == NextSibling(dom, QuerySelector(dom))
       IN  /\ b = NewestByline(dom)
           /\ NextSibling(dom, b) \in Bylines(dom) \ {b}

----------------------------------------------------------------------------
\* C23: the heading lookup is stable under insertion: a step that inserts a
\* byline leaves the lookup's result what it was, the new byline holds no
\* h1 or h2 and comes after that heading in document order; so the lookup
\* returns the same element after any number of insertions.
LookupStable(d, e) ==
    Bylines(e) # Bylines(d) =>
        /\ QuerySelector(e) = QuerySelector(d)
        /\ \A b \in Bylines(e) \ Bylines(d) :
              /\ Before(e, QuerySelector(d), b)
              /\ \A n \in {b} \cup Descendants(e, b) : ~Matches(e, n)

C23_LookupStableUnderInsertion == [][LookupStable(dom, dom')]_vars

\* two bylines were inserted on a page with a second qualifying heading,
\* and the lookup still returns the heading they follow
C23_Witness ==
    /\ inserted = 2
    /\ Cardinality(Qualifying(dom)) = 2
    /\ \A b \in Bylines(dom) : Anchor(dom, b) = QuerySelector(dom)

----------------------------------------------------------------------------
\* the articles of the document
Articles(d) == {n \in Attached(d) : d[n].tag = "article"}

\* C24: when the heading the lookup returns is not a direct child of an
\* article, the byline a step inserts is a child of the heading's own
\* parent, right after the heading; it is not a direct child of an article
\* and not the last child of one.
NestedPlacement(d, e) ==
    LET h == QuerySelector(d)
    IN  \A b \in Bylines(e) \ Bylines(d) :
            ParentOf(d, h) \notin Articles(d) =>
                /\ Parents(e, b) = {ParentOf(d, h)}
                /\ PreviousSibling(e, b) = h
                /\ \A a \in Articles(e) : ~InSeq(b, e[a].kids)

C24_NestedHeadingPlacement == [][NestedPlacement(dom, dom')]_vars

\* a byline follows a heading inside a paragraph of an article
C24_Witness ==
    \E b \in Bylines(dom) :
        /\ dom[ParentOf(dom, b)].tag = "p"
        /\ ParentOf(dom, b) \notin Articles(dom)
        /\ PreviousSibling(dom, b) = QuerySelector(dom)
        /\ ClosestArticle(dom, b) # NoNode

=============================================================================
